---- MODULE Spec2Model ----
(***************************************************************************)
(* Model of megaparse/parser/doctr_parser.py: the region matcher           *)
(* DoctrParser._get_block_cls and the document assembler                   *)
(* DoctrParser.__to_elements_list.                                         *)
(*                                                                         *)
(* Coordinates are integers, so every ratio the matcher compares is an     *)
(* exact rational; the threshold is a pair <<num, den>> (0.6 is <<6, 10>>) *)
(* and  a / b > num / den  is decided as  a * den > num * b  for b > 0.    *)
(* A Python exception is a record [kind |-> "raise", exc |-> <its type>].  *)
(***************************************************************************)
EXTENDS Integers, Sequences, FiniteSets, TLC

VARIABLES
    \* ---- DoctrParser.__to_elements_list ----
    doctr_document,   \* the doctr Document: a sequence of pages
    layouts,          \* one list of LayoutDetectionOutput per page
    pc,               \* "page" | "block" | "line" | "done" | "raised"
    page_number,      \* enumerate() index of the page being processed
    block_no,         \* 1-based position in page.blocks
    line_no,          \* 1-based position in block.lines
    result,           \* the page's dict, as a sequence of <<key, block>> in insertion order
    results,          \* the blocks of the pages finished so far
    uuids,            \* how many uuid.uuid4() values were drawn so far
    ret,              \* what the call returned or raised ("none" while running)
    \* ---- one call of DoctrParser._get_block_cls ----
    m_coordinates,    \* (x1, y1, x2, y2) of the line
    m_layout,         \* the page's regions, in input order
    m_threshold,      \* <<num, den>>
    m_out             \* "idle" before the call, then what it returned or raised

vars == <<doctr_document, layouts, pc, page_number, block_no, line_no, result,
          results, uuids, ret, m_coordinates, m_layout, m_threshold, m_out>>

asm_vars == <<doctr_document, layouts, pc, page_number, block_no, line_no, result,
              results, uuids, ret>>

match_vars == <<m_coordinates, m_layout, m_threshold, m_out>>

----------------------------------------------------------------------------
(* Bounds of the model.                                                    *)

\* Coordinates range over 0..MaxCoord.
MaxCoord == 3

\* At most MaxRegions layout regions on a page.
MaxRegions == 2

\* At most MaxLines text lines on a page.
MaxLines == 2

\* At most MaxPages pages in a document.
MaxPages == 2

----------------------------------------------------------------------------
(* Data model (megaparse_sdk.schema.document, as the parser uses it).      *)

Point2D(px, py) == [x |-> px, y |-> py]

BBOX(tl, br) == [top_left |-> tl, bottom_right |-> br]

\* BBOX.to_numpy(): [x0, y0, x1, y1]
to_numpy(bbox) ==
    <<bbox.top_left.x, bbox.top_left.y, bbox.bottom_right.x, bbox.bottom_right.y>>

\* Python's builtins on two numbers.
max(a, b) == IF b > a THEN b ELSE a

min(a, b) == IF b < a THEN b ELSE a

\* block_cls_map: label -> Block class.
block_cls_map(label) ==
    CASE label = 0 -> "CaptionBlock"
      [] label = 1 -> "TextBlock"
      [] label = 2 -> "TextBlock"
      [] label = 3 -> "ListElementBlock"
      [] label = 4 -> "FooterBlock"
      [] label = 5 -> "HeaderBlock"
      [] label = 6 -> "ImageBlock"
      [] label = 7 -> "SubTitleBlock"
      [] label = 8 -> "TableBlock"
      [] label = 9 -> "TextBlock"
      [] label = 10 -> "TitleBlock"

\* issubclass(block_cls, TextBlock): every variant but the non-text ones
\* (image, table) is text-bearing.
issubclass_TextBlock(block_cls) == block_cls \notin {"ImageBlock", "TableBlock"}

\* The n-th value of uuid.uuid4(): never equal to a region's bbox_id, never repeated.
uuid4(n) == <<"uuid4", n>>

Raise(e) == [kind |-> "raise", exc |-> e]

----------------------------------------------------------------------------
(* DoctrParser._get_block_cls                                              *)

\* The default of the threshold parameter, 0.6.
DefaultThreshold == <<6, 10>>

\* The comparison with >= in place of >.
ExceedsGe(union_area, detection_area, threshold) ==
    union_area * threshold[2] >= threshold[1] * detection_area

\* union_area / detection_area > threshold (line 311), for detection_area > 0.
Exceeds(union_area, detection_area, threshold) ==
    union_area * threshold[2] > threshold[1] * detection_area

\* union_width * union_height of the clipped intersection (lines 300-307).
union_area_of(c, X) ==
    LET union_x1 == max(c[1], X[1])
        union_y1 == max(c[2], X[2])
        union_x2 == min(c[3], X[3])
        union_y2 == min(c[4], X[4])
        union_width == max(0, union_x2 - union_x1)
        union_height == max(0, union_y2 - union_y1)
    IN  union_width * union_height

\* The area of the region's box, X, in place of the line's.
detection_area_of_region(c, X) == max(0, X[3] - X[1]) * max(0, X[4] - X[2])

\* detection_area (line 309): the area of the line's box.  X is the region's box.
detection_area_of(c, X) == max(0, c[3] - c[1]) * max(0, c[4] - c[2])

\* One pass of "for det in layout" from position i on; fresh is the value the
\* trailing uuid.uuid4() would give.
RECURSIVE get_block_cls_from(_, _, _, _, _)
get_block_cls_from(i, coordinates, layout, threshold, fresh) ==
    IF i > Len(layout)
    THEN [kind |-> "return", block_id |-> fresh, block_cls |-> "UndefinedBlock"]
    ELSE LET det == layout[i]
             X == to_numpy(det.bbox)
         IN  IF ~(coordinates[1] <= coordinates[3] /\ coordinates[2] <= coordinates[4])
             THEN Raise("AssertionError")
             ELSE IF ~(X[1] <= X[3] /\ X[2] <= X[4])
             THEN Raise("AssertionError")
             ELSE IF detection_area_of(coordinates, X) = 0
             THEN Raise("ZeroDivisionError")
             ELSE IF Exceeds(union_area_of(coordinates, X),
                             detection_area_of(coordinates, X), threshold)
             THEN [kind |-> "return", block_id |-> det.bbox_id,
                   block_cls |-> block_cls_map(det.label)]
             ELSE get_block_cls_from(i + 1, coordinates, layout, threshold, fresh)

get_block_cls(coordinates, layout, threshold, fresh) ==
    get_block_cls_from(1, coordinates, layout, threshold, fresh)

----------------------------------------------------------------------------
(* DoctrParser.__to_elements_list: the steps of the page loop.             *)

\* word.geometry is ((x0, y0), (x1, y1)); the line's box is the union of its
\* words' boxes (lines 332-336).  min()/max() of no words raise ValueError.
RECURSIVE min_over(_, _, _)
min_over(words, a, b) ==
    IF Len(words) = 1 THEN words[1].geometry[a][b]
    ELSE min(min_over(Tail(words), a, b), words[1].geometry[a][b])

RECURSIVE max_over(_, _, _)
max_over(words, a, b) ==
    IF Len(words) = 1 THEN words[1].geometry[a][b]
    ELSE max(max_over(Tail(words), a, b), words[1].geometry[a][b])

line_coordinates(line) ==
    <<min_over(line.words, 1, 1), min_over(line.words, 1, 2),
      max_over(line.words, 2, 1), max_over(line.words, 2, 2)>>

\* line.render(): the words' values joined by one space.
RECURSIVE render_words(_)
render_words(words) ==
    IF Len(words) = 0 THEN ""
    ELSE IF Len(words) = 1 THEN words[1].value
    ELSE words[1].value \o " " \o render_words(Tail(words))

render(line) == render_words(line.words)

\* "block_id in result": the position of the key in the dict, 0 when absent.
key_index(res, block_id) ==
    IF \E i \in 1..Len(res) : res[i][1] = block_id
    THEN CHOOSE i \in 1..Len(res) : res[i][1] = block_id
    ELSE 0

\* block_cls(text=..., bbox=..., metadata={}, page_range=(n, n))
new_block(block_cls, text, bbox, n) ==
    [cls |-> block_cls, text |-> text, bbox |-> bbox, metadata |-> <<>>,
     page_range |-> <<n, n>>]

\* The merge that appends the text and leaves the bbox as it was.
merged_block_keep_bbox(b, c, text) == [b EXCEPT !.text = b.text \o "\n" \o text]

\* The merge of a line into the block its key already holds (lines 342-347).
merged_block(b, c, text) ==
    LET bb == to_numpy(b.bbox)
    IN  [b EXCEPT !.text = b.text \o "\n" \o text,
                  !.bbox = BBOX(Point2D(min(c[1], bb[1]), min(c[2], bb[2])),
                                Point2D(max(c[3], bb[3]), max(c[4], bb[4])))]

\* Lines 341-358: merge into the key's block, or create a text block, or
\* (a class that is no TextBlock) leave the dict as it is.
accumulate(res, m, c, text, n) ==
    LET i == key_index(res, m.block_id)
    IN  IF i > 0
        THEN [res EXCEPT ![i] = <<res[i][1], merged_block(res[i][2], c, text)>>]
        ELSE IF issubclass_TextBlock(m.block_cls)
        THEN Append(res, <<m.block_id,
                           new_block(m.block_cls, text,
                                     BBOX(Point2D(c[1], c[2]), Point2D(c[3], c[4])), n)>>)
        ELSE res

\* The body of "for line in block.lines" (lines 332-358) on the dict res with
\* k uuids drawn so far.
line_step(res, k, line, layout, n) ==
    IF Len(line.words) = 0 THEN Raise("ValueError")
    ELSE LET c == line_coordinates(line)
             m == get_block_cls(c, layout, DefaultThreshold, uuid4(k))
         IN  IF m.kind = "raise" THEN m
             ELSE [kind |-> "ok",
                   result |-> accumulate(res, m, c, render(line), n),
                   uuids |-> IF m.block_id = uuid4(k) THEN k + 1 ELSE k]

\* "for det in layout: if det.label in [6, 8]: result[uuid.uuid4()] = ..."
\* (lines 360-371), from position i on.
RECURSIVE inject_from(_, _, _, _, _)
inject_from(i, res, k, layout, n) ==
    IF i > Len(layout) THEN [kind |-> "ok", result |-> res, uuids |-> k]
    ELSE IF layout[i].label \in {6, 8}
    THEN inject_from(i + 1,
                     Append(res, <<uuid4(k),
                                   new_block(block_cls_map(layout[i].label), "",
                                             layout[i].bbox, n)>>),
                     k + 1, layout, n)
    ELSE inject_from(i + 1, res, k, layout, n)

inject(res, k, layout, n) == inject_from(1, res, k, layout, n)

\* result.values()
RECURSIVE dict_values(_)
dict_values(res) ==
    IF Len(res) = 0 THEN <<>> ELSE <<res[1][2]>> \o dict_values(Tail(res))

sort_key(block) == block.bbox.top_left.y

\* Insertion of b into an ascending sequence, after the elements with the same key.
RECURSIVE insert_sorted(_, _)
insert_sorted(s, b) ==
    IF Len(s) = 0 THEN <<b>>
    ELSE IF sort_key(b) < sort_key(s[1]) THEN <<b>> \o s
    ELSE <<s[1]>> \o insert_sorted(Tail(s), b)

\* The unstable variant: b goes before the elements with the same key.
RECURSIVE insert_before_equal(_, _)
insert_before_equal(s, b) ==
    IF Len(s) = 0 THEN <<b>>
    ELSE IF sort_key(b) <= sort_key(s[1]) THEN <<b>> \o s
    ELSE <<s[1]>> \o insert_before_equal(Tail(s), b)

RECURSIVE sorted_unstable(_)
sorted_unstable(blocks) ==
    IF Len(blocks) = 0 THEN <<>>
    ELSE insert_before_equal(sorted_unstable(SubSeq(blocks, 1, Len(blocks) - 1)),
                             blocks[Len(blocks)])

\* sorted(blocks, key=lambda block: block.bbox.top_left.y): ascending, stable.
RECURSIVE sorted(_)
sorted(blocks) ==
    IF Len(blocks) = 0 THEN <<>>
    ELSE insert_sorted(sorted(SubSeq(blocks, 1, Len(blocks) - 1)), blocks[Len(blocks)])

\* MPDocument(metadata={}, content=results, detection_origin="doctr")
MPDocument(content) ==
    [kind |-> "return", metadata |-> <<>>, content |-> content,
     detection_origin |-> "doctr"]

----------------------------------------------------------------------------
(* The body of the page loop as a function of one page (lines 325-374).    *)

\* len(block.lines) and len(block.artefacts) > 0
block_refused(blk) == Len(blk.lines) > 0 /\ Len(blk.artefacts) > 0

\* "for line in block.lines" from the j-th line on; s is the state so far.
RECURSIVE lines_from(_, _, _, _, _)
lines_from(s, lines, j, ly, n) ==
    IF s.kind = "raise" \/ j > Len(lines) THEN s
    ELSE lines_from(line_step(s.result, s.uuids, lines[j], ly, n), lines, j + 1, ly, n)

\* One turn of "for block in page.blocks": the check, the lines, the injection.
block_step(s, blk, ly, n) ==
    IF block_refused(blk) THEN Raise("ValueError")
    ELSE LET t == lines_from(s, blk.lines, 1, ly, n)
         IN  IF t.kind = "raise" THEN t ELSE inject(t.result, t.uuids, ly, n)

RECURSIVE blocks_from(_, _, _, _, _)
blocks_from(s, blocks, i, ly, n) ==
    IF s.kind = "raise" \/ i > Len(blocks) THEN s
    ELSE blocks_from(block_step(s, blocks[i], ly, n), blocks, i + 1, ly, n)

\* The dict of a page processed on its own, or the exception it raises.
page_result(pg, ly, n) ==
    blocks_from([kind |-> "ok", result |-> <<>>, uuids |-> 0], pg.blocks, 1, ly, n)

\* sorted_page_blocks of a page processed on its own.
sorted_page_blocks(pg, ly, n) == sorted(dict_values(page_result(pg, ly, n).result))

----------------------------------------------------------------------------
(* The inputs: what the OCR and layout collaborators hand to the parser.   *)

Coord == 0..MaxCoord

\* A LayoutDetectionOutput; the bbox_id of the i-th region of a page.
bbox_id_of(i) == <<"bbox_id", i>>

Region(i, label, x0, y0, x1, y1) ==
    [bbox_id |-> bbox_id_of(i), label |-> label,
     bbox |-> BBOX(Point2D(x0, y0), Point2D(x1, y1))]

\* A doctr Word, Line, Block and Page.
Word(value, x0, y0, x1, y1) == [value |-> value, geometry |-> <<<<x0, y0>>, <<x1, y1>>>>]

OneWordLine(value, x0, y0, x1, y1) == [words |-> <<Word(value, x0, y0, x1, y1)>>]

OcrBlock(lines, artefacts) == [lines |-> lines, artefacts |-> artefacts]

OcrPage(blocks) == [blocks |-> blocks]

SeqsUpTo(S, n) == UNION {[1..k -> S] : k \in 0..n}

\* ---- inputs of one _get_block_cls call ----

\* Lines: every x-extent over the grid (well-formed, empty or inverted) on the
\* unit row, the well-formed ones also two rows high, and one empty and one
\* inverted y-extent.
GoodExtents == {q \in Coord \X Coord : q[1] < q[2]}

MatchBoxes ==
    {<<x0, 0, x1, 1>> : x0 \in Coord, x1 \in Coord}
        \cup {<<e[1], 0, e[2], 2>> : e \in GoodExtents}
        \cup {<<0, 0, MaxCoord, 0>>, <<0, 1, MaxCoord, 0>>}

\* Regions: the well-formed x-extents, one or two rows high, and an inverted
\* x-extent, an inverted y-extent and an empty box.
MatchRegionBoxes ==
    {<<e[1], 0, e[2], h>> : e \in GoodExtents, h \in {1, 2}}
        \cup {<<MaxCoord, 0, 0, 1>>, <<0, 1, MaxCoord, 0>>, <<0, 0, 0, 1>>}

\* The labels of a layout alternate between a text class and a non-text class.
MatchLabels == {<<10, 6>>, <<6, 10>>}

MatchLayout(boxes, labels) ==
    [i \in 1..Len(boxes) |->
        Region(i, labels[((i - 1) % 2) + 1],
               boxes[i][1], boxes[i][2], boxes[i][3], boxes[i][4])]

MatchLayouts ==
    {MatchLayout(boxes, labels) :
        boxes \in SeqsUpTo(MatchRegionBoxes, MaxRegions), labels \in MatchLabels}

Thresholds == {<<1, 2>>, DefaultThreshold}

\* ---- inputs of __to_elements_list ----

\* Boxes of an assembled page are full-width strips  y0..y1.
StripEnds == {0, 1, MaxCoord}

\* The well-formed strips of positive height.
GoodStrips == {q \in StripEnds \X StripEnds : q[1] < q[2]}

StripLine(value, y0, y1) == OneWordLine(value, 0, y0, MaxCoord, y1)

\* A line of two words side by side on the strip 0..1.
TwoWordLine == [words |-> <<Word("a", 0, 0, 1, 1), Word("b", 1, 0, MaxCoord, 1)>>]

\* Every strip, well-formed, empty or inverted.
AnyLines == {StripLine("a", y0, y1) : y0 \in StripEnds, y1 \in StripEnds}

\* Well-formed lines of positive area, with one of two texts.
GoodLines ==
    {StripLine(v, e[1], e[2]) : v \in {"a", "b"}, e \in GoodStrips}
        \cup {TwoWordLine}

\* Regions of a page, before their position gives them an identifier: a text
\* class, image and table on well-formed strips, and inverted ones.
GoodRegionShapes ==
    {<<label, e[1], e[2]>> : label \in {10, 6}, e \in GoodStrips}
        \cup {<<8, 0, MaxCoord>>}

AnyRegionShapes == GoodRegionShapes \cup {<<10, MaxCoord, 0>>, <<6, MaxCoord, 0>>}

StripLayout(shapes) ==
    [i \in 1..Len(shapes) |->
        Region(i, shapes[i][1], 0, shapes[i][2], MaxCoord, shapes[i][3])]

\* Family 1: one page holding one line of any geometry, under any layout.
GeometryDocs ==
    {<<<<OcrPage(<<OcrBlock(<<l>>, <<>>)>>)>>, <<StripLayout(sh)>>>> :
        l \in AnyLines, sh \in SeqsUpTo(AnyRegionShapes, MaxRegions)}

\* Family 2: one page of up to two OCR blocks holding up to MaxLines good lines
\* in all; a block with artefacts holds at most one line.
OcrBlocks ==
    {OcrBlock(ls, a) :
        ls \in SeqsUpTo(GoodLines, MaxLines), a \in {<<>>, <<"artefact">>}}

AccumulationPages ==
    {<<>>}
        \cup {<<b>> : b \in {b \in OcrBlocks : Len(b.artefacts) = 0 \/ Len(b.lines) <= 1}}
        \cup {<<q[1], q[2]>> :
                q \in {r \in OcrBlocks \X OcrBlocks :
                          /\ Len(r[1].artefacts) = 0
                          /\ Len(r[2].artefacts) = 0
                          /\ Len(r[1].lines) + Len(r[2].lines) <= MaxLines}}

AccumulationLayouts ==
    {StripLayout(sh) : sh \in {<<>>,
                               <<<<10, 0, MaxCoord>>>>,
                               <<<<6, 0, MaxCoord>>>>,
                               <<<<10, 0, 1>>>>,
                               <<<<6, 0, 1>>>>,
                               <<<<8, 0, MaxCoord>>, <<6, 0, 1>>>>,
                               <<<<10, 0, 1>>, <<7, 1, MaxCoord>>>>,
                               <<<<6, 1, MaxCoord>>, <<10, 0, MaxCoord>>>>}}

AccumulationDocs ==
    {<<<<OcrPage(bs)>>, <<ly>>>> : bs \in AccumulationPages, ly \in AccumulationLayouts}

\* Family 3: documents of several simple pages; the regions of different pages
\* share their identifiers.
SimplePages ==
    {<<OcrPage(<<OcrBlock(<<l>>, <<>>)>>), StripLayout(<<sh>>)>> :
        l \in {StripLine("a", 0, 1), StripLine("b", 1, MaxCoord), StripLine("b", 0, MaxCoord)},
        sh \in {<<10, 0, MaxCoord>>, <<6, 0, 1>>}}
        \cup {<<OcrPage(<<OcrBlock(<<StripLine("a", 0, 1), StripLine("b", 0, 1)>>, <<>>)>>),
                StripLayout(<<>>)>>,
              <<OcrPage(<<>>), StripLayout(<<<<6, 0, 1>>>>)>>}

PagedDocs ==
    {<<[i \in 1..Len(ps) |-> ps[i][1]], [i \in 1..Len(ps) |-> ps[i][2]]>> :
        ps \in {q \in SeqsUpTo(SimplePages, MaxPages) : Len(q) # 1}}

Docs == GeometryDocs \cup AccumulationDocs \cup PagedDocs

----------------------------------------------------------------------------
(* The state machine of __to_elements_list.                                *)

NoCall == [kind |-> "idle"]

Init ==
    /\ \E d \in Docs : doctr_document = d[1] /\ layouts = d[2]
    /\ pc = "page"
    /\ page_number = 0
    /\ block_no = 1
    /\ line_no = 1
    /\ result = <<>>
    /\ results = <<>>
    /\ uuids = 0
    /\ ret = NoCall
    /\ m_coordinates = <<0, 0, 0, 0>>
    /\ m_layout = <<>>
    /\ m_threshold = DefaultThreshold
    /\ m_out = NoCall

page == doctr_document[page_number + 1]

layout == layouts[page_number + 1]

block == page.blocks[block_no]

\* The dict of the previous page kept for the next one.
fresh_result_keeping(previous) == previous

\* "result = {}" of line 325, given the dict the previous page left.

fresh_result(previous) == <<>>

\* for page_number, (page, layout) in enumerate(zip(..., strict=True)): result = {}
StartPage ==
    /\ pc = "page"
    /\ page_number < Len(doctr_document)
    /\ page_number < Len(layouts)
    /\ result' = fresh_result(result)
    /\ block_no' = 1
    /\ pc' = "block"
    /\ UNCHANGED <<doctr_document, layouts, page_number, line_no, results, uuids, ret>>
    /\ UNCHANGED match_vars

\* zip(strict=True) raises ValueError when the two lists differ in length;
\* otherwise the loop ends and the MPDocument is returned (lines 377-381).
Return ==
    /\ pc = "page"
    /\ (page_number >= Len(doctr_document) \/ page_number >= Len(layouts))
    /\ IF Len(doctr_document) # Len(layouts)
       THEN pc' = "raised" /\ ret' = Raise("ValueError")
       ELSE pc' = "done" /\ ret' = MPDocument(results)
    /\ UNCHANGED <<doctr_document, layouts, page_number, block_no, line_no, result,
                   results, uuids>>
    /\ UNCHANGED match_vars

\* for block in page.blocks: a block with both lines and artefacts is refused
\* (lines 326-330).
StartBlock ==
    /\ pc = "block"
    /\ block_no <= Len(page.blocks)
    /\ IF block_refused(block)
       THEN pc' = "raised" /\ ret' = Raise("ValueError") /\ line_no' = line_no
       ELSE pc' = "line" /\ ret' = ret /\ line_no' = 1
    /\ UNCHANGED <<doctr_document, layouts, page_number, block_no, result, results, uuids>>
    /\ UNCHANGED match_vars

\* for line in block.lines (lines 331-358)
ProcessLine ==
    /\ pc = "line"
    /\ line_no <= Len(block.lines)
    /\ LET s == line_step(result, uuids, block.lines[line_no], layout, page_number)
       IN  IF s.kind = "raise"
           THEN pc' = "raised" /\ ret' = s /\ UNCHANGED <<result, uuids, line_no>>
           ELSE /\ result' = s.result
                /\ uuids' = s.uuids
                /\ line_no' = line_no + 1
                /\ UNCHANGED <<pc, ret>>
    /\ UNCHANGED <<doctr_document, layouts, page_number, block_no, results>>
    /\ UNCHANGED match_vars

\* The injection loop of lines 360-371, which sits inside "for block in
\* page.blocks" and so runs at the end of every OCR block.
InjectRegions ==
    /\ pc = "line"
    /\ line_no > Len(block.lines)
    /\ LET s == inject(result, uuids, layout, page_number)
       IN  result' = s.result /\ uuids' = s.uuids
    /\ block_no' = block_no + 1
    /\ pc' = "block"
    /\ UNCHANGED <<doctr_document, layouts, page_number, line_no, results, ret>>
    /\ UNCHANGED match_vars

\* sorted_page_blocks = sorted(result.values(), ...); results += sorted_page_blocks
FinishPage ==
    /\ pc = "block"
    /\ block_no > Len(page.blocks)
    /\ results' = results \o sorted(dict_values(result))
    /\ page_number' = page_number + 1
    /\ pc' = "page"
    /\ UNCHANGED <<doctr_document, layouts, block_no, line_no, result, uuids, ret>>
    /\ UNCHANGED match_vars

Next == StartPage \/ StartBlock \/ ProcessLine \/ InjectRegions \/ FinishPage \/ Return

Spec == Init /\ [][Next]_vars

----------------------------------------------------------------------------
(* One call of _get_block_cls on its own, over every threshold.            *)

InitMatch ==
    /\ m_coordinates \in MatchBoxes
    /\ m_layout \in MatchLayouts
    /\ m_threshold \in Thresholds
    /\ m_out = NoCall
    /\ doctr_document = <<>>
    /\ layouts = <<>>
    /\ pc = "idle"
    /\ page_number = 0
    /\ block_no = 1
    /\ line_no = 1
    /\ result = <<>>
    /\ results = <<>>
    /\ uuids = 0
    /\ ret = NoCall

CallGetBlockCls ==
    /\ m_out.kind = "idle"
    /\ m_out' = get_block_cls(m_coordinates, m_layout, m_threshold, uuid4(uuids))
    /\ UNCHANGED <<m_coordinates, m_layout, m_threshold>>
    /\ UNCHANGED asm_vars

NextMatch == CallGetBlockCls

SpecMatch == InitMatch /\ [][NextMatch]_vars

----------------------------------------------------------------------------
(* Geometry, stated directly: what the claims compare the code against.    *)

WellFormed(c) == c[1] <= c[3] /\ c[2] <= c[4]

Area(c) == (c[3] - c[1]) * (c[4] - c[2])

\* The area common to two well-formed boxes.
IntersectionArea(c, d) ==
    LET w == (IF c[3] < d[3] THEN c[3] ELSE d[3]) - (IF c[1] > d[1] THEN c[1] ELSE d[1])
        h == (IF c[4] < d[4] THEN c[4] ELSE d[4]) - (IF c[2] > d[2] THEN c[2] ELSE d[2])
    IN  IF w > 0 /\ h > 0 THEN w * h ELSE 0

\* c lies entirely inside d.
Inside(c, d) == d[1] <= c[1] /\ d[2] <= c[2] /\ c[3] <= d[3] /\ c[4] <= d[4]

\* intersectionArea(line, region) / area(line) > t, for a line of positive area.
RatioAbove(c, d, t) == IntersectionArea(c, d) * t[2] > t[1] * Area(c)

RatioEquals(c, d, t) == IntersectionArea(c, d) * t[2] = t[1] * Area(c)

Least(S) == CHOOSE i \in S : \A j \in S : i <= j

MatchCalled == m_out.kind # "idle"

MatchBox(i) == to_numpy(m_layout[i].bbox)

\* The call meets no ill-formed box and no line of zero area.
MatchInputsSound ==
    /\ WellFormed(m_coordinates)
    /\ Area(m_coordinates) > 0
    /\ \A i \in 1..Len(m_layout) : WellFormed(MatchBox(i))

\* The positions of the regions that cover more than the threshold of the line.
MatchAbove == {i \in 1..Len(m_layout) : RatioAbove(m_coordinates, MatchBox(i), m_threshold)}

ReturnsRegion(i) ==
    /\ m_out.kind = "return"
    /\ m_out.block_id = m_layout[i].bbox_id
    /\ m_out.block_cls = block_cls_map(m_layout[i].label)

ReturnsUndefined ==
    /\ m_out.kind = "return"
    /\ m_out.block_id = uuid4(uuids)
    /\ m_out.block_cls = "UndefinedBlock"

----------------------------------------------------------------------------
(* Claims about _get_block_cls, checked under SpecMatch.                   *)

\* C5: on sound inputs the matcher returns the identifier and label of the
\* first region, in input order, whose ratio intersectionArea / area(line) is
\* strictly greater than the threshold, and the fresh undefined pair when no
\* region is; a ratio equal to the threshold does not match, and an earlier
\* region above the threshold wins over a later one that overlaps more.
C5_FirstAboveThresholdWins ==
    (MatchCalled /\ MatchInputsSound) =>
        IF MatchAbove = {} THEN ReturnsUndefined ELSE ReturnsRegion(Least(MatchAbove))

\* C5 witness: two regions are above the threshold, the later one overlaps the
\* line more and has another label, and the earlier one is returned.
C5_Witness ==
    /\ MatchCalled /\ MatchInputsSound
    /\ Len(m_layout) >= 2
    /\ \E i \in 1..Len(m_layout) : \E j \in 1..Len(m_layout) :
          /\ i < j
          /\ RatioAbove(m_coordinates, MatchBox(i), m_threshold)
          /\ IntersectionArea(m_coordinates, MatchBox(j))
                > IntersectionArea(m_coordinates, MatchBox(i))
          /\ ReturnsRegion(i)
          /\ m_layout[i].label # m_layout[j].label

\* C5 second case, reached as well: a region whose ratio equals the threshold.
C5_EqualityReached ==
    /\ MatchCalled /\ MatchInputsSound
    /\ Len(m_layout) = 1
    /\ RatioEquals(m_coordinates, MatchBox(1), m_threshold)
    /\ ReturnsUndefined

\* The regions whose box holds the whole line.
MatchContaining == {i \in 1..Len(m_layout) : Inside(m_coordinates, MatchBox(i))}

\* C8 as stated: a line lying inside exactly one region's box gets that
\* region's identifier, for every threshold, whatever the other regions and
\* wherever the region sits (taken on sound inputs).
C8_Original ==
    (MatchCalled /\ MatchInputsSound /\ Cardinality(MatchContaining) = 1) =>
        ReturnsRegion(Least(MatchContaining))

\* C8 amended: a line of positive area lying inside exactly one region's box
\* (all boxes well-formed) never falls back to undefined; it gets that region's
\* identifier unless an earlier region covers more than the threshold of the
\* line, and then it gets the earliest such region's.
C8_ContainedUnlessEarlierAbove ==
    (MatchCalled /\ MatchInputsSound /\ Cardinality(MatchContaining) = 1) =>
        LET r == Least(MatchContaining)
            earlier == {j \in MatchAbove : j < r}
        IN  /\ m_out.kind = "return"
            /\ m_out.block_cls # "UndefinedBlock"
            /\ IF earlier = {} THEN ReturnsRegion(r) ELSE ReturnsRegion(Least(earlier))

\* C8 witness: the only containing region is second, the first covers more than
\* the threshold of the line without containing it, and the first is returned.
C8_Witness ==
    /\ MatchCalled /\ MatchInputsSound
    /\ MatchContaining = {2}
    /\ 1 \in MatchAbove
    /\ ReturnsRegion(1)
    /\ m_layout[1].bbox_id # m_layout[2].bbox_id

\* C9 as stated: a well-formed line of zero area never matches and never makes
\* the matcher fail; it gets a fresh identifier and the undefined class.
C9_Original ==
    (MatchCalled /\ WellFormed(m_coordinates) /\ Area(m_coordinates) = 0) =>
        ReturnsUndefined

----------------------------------------------------------------------------
(* What the claims about the assembler speak of.                           *)

NPages == Len(doctr_document)

RECURSIVE lines_of_blocks(_, _)
lines_of_blocks(blocks, k) ==
    IF k = 0 THEN <<>> ELSE lines_of_blocks(blocks, k - 1) \o blocks[k].lines

\* The text lines of the p-th page, in detection order.
PageLines(p) == lines_of_blocks(doctr_document[p].blocks, Len(doctr_document[p].blocks))

\* The match of a line against a page's layout at the default threshold.
LineMatch(line, ly) ==
    get_block_cls(line_coordinates(line), ly, DefaultThreshold, uuid4(0))

NonTextClasses == {"ImageBlock", "TableBlock"}

RECURSIVE JoinNL(_)
JoinNL(texts) ==
    IF Len(texts) = 0 THEN ""
    ELSE IF Len(texts) = 1 THEN texts[1]
    ELSE texts[1] \o "\n" \o JoinNL(Tail(texts))

Reverse(q) == [i \in 1..Len(q) |-> q[Len(q) + 1 - i]]

Renders(lines) == [i \in 1..Len(lines) |-> render(lines[i])]

\* The smallest box holding the boxes of all the lines (a non-empty sequence).
Hull(lines) ==
    LET cs == {line_coordinates(lines[i]) : i \in 1..Len(lines)}
    IN  BBOX(Point2D(CHOOSE v \in {c[1] : c \in cs} : \A c \in cs : v <= c[1],
                     CHOOSE v \in {c[2] : c \in cs} : \A c \in cs : v <= c[2]),
             Point2D(CHOOSE v \in {c[3] : c \in cs} : \A c \in cs : v >= c[3],
                     CHOOSE v \in {c[4] : c \in cs} : \A c \in cs : v >= c[4]))

\* The lines among `lines` whose match under ly is the region with identifier id.
LinesMatching(lines, ly, id) ==
    LET hit(l) == LineMatch(l, ly).kind = "return" /\ LineMatch(l, ly).block_id = id
    IN  SelectSeq(lines, hit)

Count(q, v) == Cardinality({i \in 1..Len(q) : q[i] = v})

\* The blocks of the returned document that belong to the p-th page.
PageContent(p) ==
    LET on_page(b) == b.page_range = <<p - 1, p - 1>>
    IN  SelectSeq(ret.content, on_page)

Returned == pc = "done"

----------------------------------------------------------------------------
(* Claims about __to_elements_list, checked under Spec.                    *)

\* C1 as stated: in the returned document every image (6) or table (8) region
\* of every page has exactly one ImageBlock/TableBlock with the region's bbox
\* and the page's range, whatever the number of OCR blocks and lines of the page.
C1_Original ==
    Returned =>
        \A p \in 1..NPages : \A i \in 1..Len(layouts[p]) :
            LET det == layouts[p][i]
                same == {j \in 1..Len(layouts[p]) :
                            /\ layouts[p][j].label = det.label
                            /\ layouts[p][j].bbox = det.bbox}
                emitted == {j \in 1..Len(ret.content) :
                               /\ ret.content[j].cls = block_cls_map(det.label)
                               /\ ret.content[j].bbox = det.bbox
                               /\ ret.content[j].page_range = <<p - 1, p - 1>>}
            IN  det.label \in {6, 8} => Cardinality(emitted) = Cardinality(same)

\* The identifiers of the regions of the p-th page that some line of the page matches.
MatchedRegions(p) ==
    {k \in 1..Len(layouts[p]) :
        Len(LinesMatching(PageLines(p), layouts[p], layouts[p][k].bbox_id)) > 0}

UnmatchedLines(p) ==
    {j \in 1..Len(PageLines(p)) :
        LineMatch(PageLines(p)[j], layouts[p]).block_cls = "UndefinedBlock"}

\* The block a matched region is due: its class, the texts of its lines joined
\* by newlines in detection order, the hull of their boxes.
RegionBlock(p, k) ==
    LET ls == LinesMatching(PageLines(p), layouts[p], layouts[p][k].bbox_id)
    IN  [cls |-> block_cls_map(layouts[p][k].label), text |-> JoinNL(Renders(ls)),
         bbox |-> Hull(ls), metadata |-> <<>>, page_range |-> <<p - 1, p - 1>>]

\* The block an unmatched line is due: an UndefinedBlock with its box and text.
UndefinedBlockOf(p, j) ==
    LET l == PageLines(p)[j]
        c == line_coordinates(l)
    IN  [cls |-> "UndefinedBlock", text |-> render(l),
         bbox |-> BBOX(Point2D(c[1], c[2]), Point2D(c[3], c[4])),
         metadata |-> <<>>, page_range |-> <<p - 1, p - 1>>]

\* C2 as stated: in a returned document every line's text is in a block of its
\* page: the block of its matched region, or an UndefinedBlock with the line's
\* box and text.  The code returns a document in which a line matched to an
\* image or table region is in no block (lines 341-358 pass it over).
C2_Original ==
    Returned =>
        \A p \in 1..NPages :
            /\ \A j \in UnmatchedLines(p) : Count(PageContent(p), UndefinedBlockOf(p, j)) >= 1
            /\ \A k \in MatchedRegions(p) :
                  \E i \in 1..Len(PageContent(p)) :
                      /\ PageContent(p)[i].cls = RegionBlock(p, k).cls
                      /\ PageContent(p)[i].text = RegionBlock(p, k).text


\* The page (1-based) whose dict `result` currently holds, and the lines of that
\* page processed so far.
AccPage == IF pc \in {"page", "done"} THEN page_number ELSE page_number + 1

SeenLines ==
    IF pc \in {"page", "done"} THEN PageLines(AccPage)
    ELSE IF pc = "block" THEN lines_of_blocks(page.blocks, block_no - 1)
    ELSE lines_of_blocks(page.blocks, block_no - 1) \o SubSeq(block.lines, 1, line_no - 1)

IsRegionKey(key) == key[1] = "bbox_id"

\* The p-th page with its blocks, and the lines of each block, in opposite order.
ReversedPage(p) ==
    LET bs == doctr_document[p].blocks
    IN  OcrPage([i \in 1..Len(bs) |->
                    OcrBlock(Reverse(bs[Len(bs) + 1 - i].lines), bs[Len(bs) + 1 - i].artefacts)])

\* C3: the blocks of the finished pages stand in page order, within a page in
\* ascending order of the top edge y of their final bbox, and the blocks of a
\* page with the same top edge y keep the order in which the page's pass
\* first inserted them.
C3_ReadingOrder ==
    /\ \A i \in 1..Len(results) : \A j \in 1..Len(results) :
          i < j =>
              /\ results[i].page_range[1] <= results[j].page_range[1]
              /\ results[i].page_range = results[j].page_range
                    => sort_key(results[i]) <= sort_key(results[j])
    /\ (pc \in {"page", "done"} /\ page_number >= 1) =>
          LET inserted == dict_values(result)
              tail == SubSeq(results, Len(results) - Len(inserted) + 1, Len(results))
          IN  /\ Len(results) >= Len(inserted)
              /\ \A y \in Coord :
                    LET at_y(b) == sort_key(b) = y
                    IN  SelectSeq(tail, at_y) = SelectSeq(inserted, at_y)
              /\ \A i \in 1..Len(inserted) : sort_key(inserted[i]) \in Coord
    /\ Returned => ret.content = results

\* C3 witness: a returned document of two pages with blocks, whose last page
\* holds two different blocks with the same top edge that the sort had to move
\* behind a block inserted after them, or keep in insertion order.
C3_Witness ==
    /\ Returned
    /\ NPages >= 2
    /\ \E i \in 1..Len(results) : results[i].page_range = <<0, 0>>
    /\ LET inserted == dict_values(result)
       IN  \E i \in 1..Len(inserted) : \E j \in 1..Len(inserted) :
              /\ i < j
              /\ sort_key(inserted[i]) = sort_key(inserted[j])
              /\ inserted[i] # inserted[j]

\* C3 second case, reached as well: the sort reorders the inserted blocks.
C3_Reordered ==
    /\ pc = "page" /\ page_number >= 1
    /\ \E i \in 1..Len(result) : \E j \in 1..Len(result) :
          i < j /\ sort_key(result[i][2]) > sort_key(result[j][2])

\* C4: at every point of a page's pass, the block keyed by a region holds the
\* texts of the lines matched to that region so far, in detection order, joined
\* by newlines, and its bbox is the component-wise min of their top-lefts and max
\* of their bottom-rights, so it contains each of them; for a finished page,
\* processing the lines in the opposite order gives each such block the same
\* bbox and the texts in the opposite order.
C4_MergeTextAndHull ==
    /\ (pc \in {"block", "line"} \/ (pc \in {"page", "done"} /\ page_number >= 1)) =>
          \A i \in 1..Len(result) :
              IsRegionKey(result[i][1]) =>
                  LET ls == LinesMatching(SeenLines, layouts[AccPage], result[i][1])
                      b == result[i][2]
                  IN  /\ Len(ls) >= 1
                      /\ b.text = JoinNL(Renders(ls))
                      /\ b.bbox = Hull(ls)
                      /\ \A k \in 1..Len(ls) :
                            Inside(line_coordinates(ls[k]), to_numpy(b.bbox))
    /\ Returned =>
          \A p \in 1..NPages :
              LET forward == page_result(doctr_document[p], layouts[p], p - 1)
                  backward == page_result(ReversedPage(p), layouts[p], p - 1)
              IN  /\ backward.kind = "ok"
                  /\ \A i \in 1..Len(forward.result) :
                        IsRegionKey(forward.result[i][1]) =>
                            LET ls == LinesMatching(PageLines(p), layouts[p],
                                                    forward.result[i][1])
                                j == key_index(backward.result, forward.result[i][1])
                            IN  /\ j > 0
                                /\ backward.result[j][2].bbox = forward.result[i][2].bbox
                                /\ backward.result[j][2].text = JoinNL(Reverse(Renders(ls)))

\* C4 witness: two lines with different texts and boxes were merged into one
\* region's block, whose bbox is larger than either line's.
C4_Witness ==
    /\ Returned
    /\ \E i \in 1..Len(result) :
          /\ IsRegionKey(result[i][1])
          /\ LET ls == LinesMatching(SeenLines, layouts[AccPage], result[i][1])
             IN  /\ Len(ls) = 2
                 /\ render(ls[1]) # render(ls[2])
                 /\ result[i][2].text = render(ls[1]) \o "\n" \o render(ls[2])
                 /\ to_numpy(result[i][2].bbox) # line_coordinates(ls[1])
                 /\ to_numpy(result[i][2].bbox) # line_coordinates(ls[2])


\* A line of the p-th page whose match is a region of a non-text class.
MatchesNonText(line, ly) ==
    /\ LineMatch(line, ly).kind = "return"
    /\ LineMatch(line, ly).block_cls \in NonTextClasses

\* C6 as stated: a page with a line that matches an image or table region makes
\* the assembly raise, so no document is returned for such an input.  The code
\* raises nothing there: lines 341-358 pass the line over and go on.
C6_Original ==
    Returned =>
        \A p \in 1..NPages : \A j \in 1..Len(PageLines(p)) :
            ~MatchesNonText(PageLines(p)[j], layouts[p])

RECURSIVE PagesConcat(_)
PagesConcat(k) ==
    IF k = 0 THEN <<>>
    ELSE PagesConcat(k - 1)
             \o sorted_page_blocks(doctr_document[k], layouts[k], k - 1)

\* C7: the blocks of the pages finished so far are the concatenation, in page
\* order, of what each page yields when processed on its own from an empty
\* dict, so nothing carries over between pages, lines of different pages merge
\* into no common block although their regions share identifiers, every block
\* has the page range (p, p) of its own page, and the returned document is that
\* concatenation over all pages.
C7_PagesIndependent ==
    /\ \A p \in 1..page_number :
          /\ page_result(doctr_document[p], layouts[p], p - 1).kind = "ok"
          /\ \A i \in 1..Len(sorted_page_blocks(doctr_document[p], layouts[p], p - 1)) :
                sorted_page_blocks(doctr_document[p], layouts[p], p - 1)[i].page_range
                    = <<p - 1, p - 1>>
    /\ results = PagesConcat(page_number)
    /\ Returned => ret.content = PagesConcat(NPages)

\* C7 witness: a returned document of two pages on each of which a line matched
\* the region with the same identifier, giving one text block per page.
C7_Witness ==
    /\ Returned
    /\ NPages >= 2
    /\ \E k \in MatchedRegions(1) \cap MatchedRegions(2) :
          /\ layouts[1][k].bbox_id = layouts[2][k].bbox_id
          /\ layouts[1][k].label = 10
          /\ layouts[2][k].label = 10
          /\ Count(PageContent(1), RegionBlock(1, k)) = 1
          /\ Count(PageContent(2), RegionBlock(2, k)) = 1

\* C10 as stated: a line or region with inverted coordinates always makes the
\* assembly fail, so a returned document has no such line or region on any page.
C10_Original ==
    Returned =>
        \A p \in 1..NPages :
            /\ \A j \in 1..Len(PageLines(p)) : WellFormed(line_coordinates(PageLines(p)[j]))
            /\ \A i \in 1..Len(layouts[p]) : WellFormed(to_numpy(layouts[p][i].bbox))

====
